---- MODULE Spec2Model ----
(***************************************************************************)
(* Model of the address-book assistant: the Record / AddressBook classes   *)
(* (instances.py), the validators (helpers.py), the contact handlers       *)
(* (handlers.py) and the interactive loop (main.py).                       *)
(*                                                                         *)
(* Strings are sequences of one-character strings, so that validation,     *)
(* lower-casing and date parsing are computed character by character.      *)
(***************************************************************************)
EXTENDS Integers, Sequences, FiniteSets, TLC

VARIABLES
    book,      \* AddressBook.data: insertion-ordered sequence of entries
    today,     \* the system date that date.today() returns
    ticks,     \* how many times the system date has advanced
    session,   \* "prompt" while main()'s loop runs, "exited" after SystemExit
    last,      \* the last call: operation, arguments, outcome, returned value
    dtb,       \* a stand-alone call of Record.days_to_birthday
    vpn        \* a stand-alone call of validate_phone_number

vars == <<book, today, ticks, session, last, dtb, vpn>>

----------------------------------------------------------------------------
(* Characters and strings                                                  *)

DigitSeq == <<"0", "1", "2", "3", "4", "5", "6", "7", "8", "9">>

LowerSeq == <<"a", "b", "c", "d", "e", "f", "g", "h", "i", "j", "k", "l", "m",
              "n", "o", "p", "q", "r", "s", "t", "u", "v", "w", "x", "y", "z">>

UpperSeq == <<"A", "B", "C", "D", "E", "F", "G", "H", "I", "J", "K", "L", "M",
              "N", "O", "P", "Q", "R", "S", "T", "U", "V", "W", "X", "Y", "Z">>

Range(s) == {s[i] : i \in DOMAIN s}

\* a decimal digit outside ASCII (U+0663), which \d and int() take as 3
ArabicIndicThree == "U+0663"

Digits == Range(DigitSeq) \cup {ArabicIndicThree}

Letters == Range(LowerSeq) \cup Range(UpperSeq)

\* \d of a regular expression
IsDigit(c) == c \in Digits

\* str.isalpha() on one character
IsAlpha(c) == c \in Letters

DigitVal(c) ==
    IF c = ArabicIndicThree THEN 3
    ELSE (CHOOSE i \in DOMAIN DigitSeq : DigitSeq[i] = c) - 1

\* str.lower() on one character
LowerChar(c) ==
    IF c \in Range(UpperSeq)
    THEN LowerSeq[CHOOSE i \in DOMAIN UpperSeq : UpperSeq[i] = c]
    ELSE c

\* str.lower()
Lower(s) == [i \in DOMAIN s |-> LowerChar(s[i])]

\* int(s) for a string of digits, leading blanks ignored
RECURSIVE ToInt(_)
ToInt(s) ==
    IF Len(s) = 0 THEN 0
    ELSE IF s[Len(s)] = " " THEN ToInt(SubSeq(s, 1, Len(s) - 1))
    ELSE 10 * ToInt(SubSeq(s, 1, Len(s) - 1)) + DigitVal(s[Len(s)])

----------------------------------------------------------------------------
(* Calendar dates (datetime.date)                                          *)

MINYEAR == 1
MAXYEAR == 9999

Date(y, m, d) == [year |-> y, month |-> m, day |-> d]

\* the value None of an unset birthday
NoDate == Date(0, 0, 0)

IsLeap(y) == y % 4 = 0 /\ (y % 100 # 0 \/ y % 400 = 0)

DaysInMonth(y, m) ==
    IF m = 2 THEN (IF IsLeap(y) THEN 29 ELSE 28)
    ELSE IF m \in {4, 6, 9, 11} THEN 30
    ELSE 31

\* date(y, m, d) does not raise ValueError
IsDate(y, m, d) ==
    /\ y \in MINYEAR..MAXYEAR
    /\ m \in 1..12
    /\ d \in 1..DaysInMonth(y, m)

DaysBeforeYear(y) ==
    LET p == y - 1 IN p * 365 + (p \div 4) - (p \div 100) + (p \div 400)

DaysBeforeMonthTable == <<0, 31, 59, 90, 120, 151, 181, 212, 243, 273, 304, 334>>

DaysBeforeMonth(y, m) ==
    DaysBeforeMonthTable[m] + (IF m > 2 /\ IsLeap(y) THEN 1 ELSE 0)

\* date.toordinal()
toordinal(dt) ==
    DaysBeforeYear(dt.year) + DaysBeforeMonth(dt.year, dt.month) + dt.day

\* a >= b on dates
DateGE(a, b) ==
    \/ a.year > b.year
    \/ a.year = b.year /\ a.month > b.month
    \/ a.year = b.year /\ a.month = b.month /\ a.day >= b.day

\* dt + timedelta(days=1)
NextDay(dt) ==
    IF dt.day < DaysInMonth(dt.year, dt.month)
    THEN Date(dt.year, dt.month, dt.day + 1)
    ELSE IF dt.month < 12 THEN Date(dt.year, dt.month + 1, 1)
    ELSE Date(dt.year + 1, 1, 1)

\* dt + timedelta(days=k), k >= 0
RECURSIVE PlusDays(_, _)
PlusDays(dt, k) == IF k = 0 THEN dt ELSE PlusDays(NextDay(dt), k - 1)

----------------------------------------------------------------------------
(* helpers.py: validators                                                  *)

\* name.isalpha(): non-empty and every character alphabetic
validate_name(name) ==
    /\ Len(name) > 0
    /\ \A i \in DOMAIN name : IsAlpha(name[i])

AllDigits(s) == \A i \in DOMAIN s : IsDigit(s[i])

\* \+\d{7,15}|0\d{6,14} against the whole of s
PhoneBody(s) ==
    /\ Len(s) > 0
    /\ AllDigits(SubSeq(s, 2, Len(s)))
    /\ \/ s[1] = "+" /\ Len(s) - 1 \in 7..15
       \/ s[1] = "0" /\ Len(s) - 1 \in 6..14

\* ^(?:...)$ with re.match: $ also matches just before a final newline
validate_phone_number(phone_number) ==
    \/ PhoneBody(phone_number)
    \/ /\ Len(phone_number) > 0
       /\ phone_number[Len(phone_number)] = "\n"
       /\ PhoneBody(SubSeq(phone_number, 1, Len(phone_number) - 1))

NonZeroDigit(c) == IsDigit(c) /\ c # "0"

\* the %d directive: 3[0-1]|[1-2]\d|0[1-9]|[1-9]| [1-9]
MatchDay(p) ==
    \/ Len(p) = 2 /\ p[1] = "3" /\ p[2] \in {"0", "1"}
    \/ Len(p) = 2 /\ p[1] \in {"1", "2"} /\ IsDigit(p[2])
    \/ Len(p) = 2 /\ p[1] = "0" /\ NonZeroDigit(p[2])
    \/ Len(p) = 1 /\ NonZeroDigit(p[1])
    \/ Len(p) = 2 /\ p[1] = " " /\ NonZeroDigit(p[2])

\* the %m directive: 1[0-2]|0[1-9]|[1-9]
MatchMonth(p) ==
    \/ Len(p) = 2 /\ p[1] = "1" /\ p[2] \in {"0", "1", "2"}
    \/ Len(p) = 2 /\ p[1] = "0" /\ NonZeroDigit(p[2])
    \/ Len(p) = 1 /\ NonZeroDigit(p[1])

\* the %Y directive: \d\d\d\d
MatchYear(p) == Len(p) = 4 /\ AllDigits(p)

\* datetime.strptime(s, "%d.%m.%Y").date(): [ok |-> FALSE] stands for ValueError
strptime(s) ==
    LET dots == {i \in DOMAIN s : s[i] = "."} IN
    IF Cardinality(dots) # 2 THEN [ok |-> FALSE, date |-> NoDate]
    ELSE
        LET i1 == CHOOSE i \in dots : \A j \in dots : i <= j
            i2 == CHOOSE i \in dots : \A j \in dots : i >= j
            pd == SubSeq(s, 1, i1 - 1)
            pm == SubSeq(s, i1 + 1, i2 - 1)
            py == SubSeq(s, i2 + 1, Len(s))
        IN  IF MatchDay(pd) /\ MatchMonth(pm) /\ MatchYear(py)
               /\ IsDate(ToInt(py), ToInt(pm), ToInt(pd))
            THEN [ok |-> TRUE, date |-> Date(ToInt(py), ToInt(pm), ToInt(pd))]
            ELSE [ok |-> FALSE, date |-> NoDate]

validate_birthday(birthday) == strptime(birthday).ok

validate_args_count(args, expected_len) == Len(args) = expected_len

----------------------------------------------------------------------------
(* instances.py: Record                                                    *)

\* Record.__init__
Record(name) == [name |-> name, phones |-> <<>>, birthday |-> NoDate]

\* Record.add_phone putting the new phone first
Record_add_phone_front(record, phone_number) ==
    [record EXCEPT !.phones = <<phone_number>> \o @]

\* Record.add_phone: appends, no check of any kind
Record_add_phone(record, phone_number) ==
    [record EXCEPT !.phones = Append(@, phone_number)]

\* Record.find_phone: position of the first phone with that value, 0 for None
find_phone(record, phone_number) ==
    IF \E i \in DOMAIN record.phones : record.phones[i] = phone_number
    THEN CHOOSE i \in DOMAIN record.phones :
            /\ record.phones[i] = phone_number
            /\ \A j \in 1..(i - 1) : record.phones[j] # phone_number
    ELSE 0

\* Record.edit_phone that removes the found phone and appends the new one
edit_phone_append(record, old_number, new_number) ==
    LET phone == find_phone(record, old_number) IN
    IF phone = 0
    THEN [record |-> record, msg |-> "Phone number not found"]
    ELSE [record |-> [record EXCEPT !.phones =
                         Append(SubSeq(@, 1, phone - 1) \o SubSeq(@, phone + 1, Len(@)),
                                new_number)],
          msg |-> "Phone number is set"]

\* Record.edit_phone: the found Phone object gets the new value in place
edit_phone(record, old_number, new_number) ==
    LET phone == find_phone(record, old_number) IN
    IF phone = 0
    THEN [record |-> record, msg |-> "Phone number not found"]
    ELSE [record |-> [record EXCEPT !.phones[phone] = new_number],
          msg |-> "Phone number is set"]

\* Record.remove_phone
remove_phone(record, phone_number) ==
    LET phone == find_phone(record, phone_number) IN
    IF phone = 0
    THEN [record |-> record, msg |-> "Phone number not found"]
    ELSE [record |-> [record EXCEPT !.phones =
                         SubSeq(@, 1, phone - 1) \o SubSeq(@, phone + 1, Len(@))],
          msg |-> "Phone number is deleted"]

\* Record.add_birthday without the test for a birthday that is already set
Record_add_birthday_overwrite(record, birthday) ==
    [record |-> [record EXCEPT !.birthday = strptime(birthday).date],
     msg |-> "Birthday is set"]

\* Record.add_birthday (with Birthday.__init__ / Birthday.add_birthday)
Record_add_birthday(record, birthday) ==
    IF record.birthday # NoDate
    THEN [record |-> record, msg |-> "Birthday already set"]
    ELSE [record |-> [record EXCEPT !.birthday = strptime(birthday).date],
          msg |-> "Birthday is set"]

\* birthday_date.replace(year=next_year): [ok |-> FALSE] stands for ValueError
replace(birthday_date, next_year) ==
    IF IsDate(next_year, birthday_date.month, birthday_date.day)
    THEN [ok |-> TRUE, date |-> Date(next_year, birthday_date.month, birthday_date.day)]
    ELSE [ok |-> FALSE, date |-> NoDate]

\* the value standing for a call that never returns
NoReturn == -1

\* the loop with candidate > today in place of candidate >= today
RECURSIVE days_loop_strict(_, _, _)
days_loop_strict(birthday_date, now, next_year) ==
    IF next_year > MAXYEAR THEN NoReturn
    ELSE
        LET candidate == replace(birthday_date, next_year) IN
        IF ~candidate.ok THEN days_loop_strict(birthday_date, now, next_year + 1)
        ELSE IF DateGE(candidate.date, now) /\ candidate.date # now
             THEN toordinal(candidate.date) - toordinal(now)
             ELSE days_loop_strict(birthday_date, now, next_year + 1)

\* the while-True loop of Record.days_to_birthday.  Once next_year is past
\* MAXYEAR every replace raises ValueError and the loop only increments.
RECURSIVE days_loop(_, _, _)
days_loop(birthday_date, now, next_year) ==
    IF next_year > MAXYEAR THEN NoReturn
    ELSE
        LET candidate == replace(birthday_date, next_year) IN
        IF ~candidate.ok THEN days_loop(birthday_date, now, next_year + 1)
        ELSE IF DateGE(candidate.date, now)
             THEN toordinal(candidate.date) - toordinal(now)
             ELSE days_loop(birthday_date, now, next_year + 1)

\* Record.days_to_birthday for a record whose birthday is set; now is the
\* value date.today() returns inside the call
days_to_birthday(birthday_date, now) == days_loop(birthday_date, now, now.year)

----------------------------------------------------------------------------
(* instances.py: AddressBook.  data is an insertion-ordered dict, modelled *)
(* as the sequence of its (key, record) items in iteration order.          *)

Keys(bk) == {bk[i].key : i \in DOMAIN bk}

\* position of the item with that key, 0 when the key is absent
Pos(bk, name) ==
    IF name \in Keys(bk) THEN CHOOSE i \in DOMAIN bk : bk[i].key = name ELSE 0

\* AddressBook.add_record: data[record.name.value] = record
add_record(bk, record) ==
    LET item == [key |-> record.name, record |-> record]
        i == Pos(bk, record.name)
    IN  IF i = 0 THEN Append(bk, item) ELSE [bk EXCEPT ![i] = item]

\* AddressBook.find: position of the record, 0 for None
find(bk, name) == Pos(bk, name)

\* AddressBook.delete that pops the newest record when the name is absent
delete_popitem(bk, name) ==
    LET i == Pos(bk, name) IN
    IF i # 0
    THEN [book |-> SubSeq(bk, 1, i - 1) \o SubSeq(bk, i + 1, Len(bk)),
          msg |-> "Record deleted"]
    ELSE [book |-> SubSeq(bk, 1, Len(bk) - 1), msg |-> "Record not found"]

\* AddressBook.delete
delete(bk, name) ==
    LET i == Pos(bk, name) IN
    IF i # 0
    THEN [book |-> SubSeq(bk, 1, i - 1) \o SubSeq(bk, i + 1, Len(bk)),
          msg |-> "Record deleted"]
    ELSE [book |-> bk, msg |-> "Record not found"]

\* an insertion that puts an item before the items of the same date
RECURSIVE SortedInsert_unstable(_, _)
SortedInsert_unstable(sorted, item) ==
    IF Len(sorted) = 0 THEN <<item>>
    ELSE IF DateGE(item.date, sorted[Len(sorted)].date)
            /\ item.date # sorted[Len(sorted)].date
         THEN Append(sorted, item)
         ELSE Append(SortedInsert_unstable(SubSeq(sorted, 1, Len(sorted) - 1), item),
                     sorted[Len(sorted)])

\* list.sort(key=item[1]): stable, ascending by date
RECURSIVE SortedInsert(_, _)
SortedInsert(sorted, item) ==
    IF Len(sorted) = 0 THEN <<item>>
    ELSE IF DateGE(item.date, sorted[Len(sorted)].date)
         THEN Append(sorted, item)
         ELSE Append(SortedInsert(SubSeq(sorted, 1, Len(sorted) - 1), item),
                     sorted[Len(sorted)])

RECURSIVE sort(_)
sort(items) ==
    IF Len(items) = 0 THEN <<>>
    ELSE SortedInsert(sort(SubSeq(items, 1, Len(items) - 1)), items[Len(items)])

\* the filter with days_left < days in place of days_left <= days
InWindow_exclusive(days_left, days) == 0 <= days_left /\ days_left < days

\* the filter of upcoming_birthdays on one record's days_left
InWindow(days_left, days) == 0 <= days_left /\ days_left <= days

\* the for loop of AddressBook.upcoming_birthdays over the first n records;
\* now is the date read at the top of the call, reads[i] the date that the
\* i-th record's days_to_birthday reads
RECURSIVE collect(_, _, _, _, _)
collect(bk, days, now, reads, n) ==
    IF n = 0 THEN <<>>
    ELSE
        LET before == collect(bk, days, now, reads, n - 1)
            record == bk[n].record
        IN  IF record.birthday = NoDate THEN before
            ELSE LET days_left == days_to_birthday(record.birthday, reads[n]) IN
                 IF InWindow(days_left, days)
                 THEN Append(before, [name |-> record.name,
                                      date |-> PlusDays(now, days_left)])
                 ELSE before

\* AddressBook.upcoming_birthdays
upcoming_birthdays(bk, days, now, reads) ==
    sort(collect(bk, days, now, reads, Len(bk)))

\* some record's days_to_birthday never returns
Hangs(bk, reads) ==
    \E i \in DOMAIN bk :
        /\ bk[i].record.birthday # NoDate
        /\ days_to_birthday(bk[i].record.birthday, reads[i]) = NoReturn

----------------------------------------------------------------------------
(* helpers.py: input_error, parse_input                                    *)

\* the outcome of a call: the address book after it, the exception that
\* leaves it ("" for a normal return), the message shown, the truth value
\* of what it returns
Return(bk, value) == [book |-> bk, exc |-> "", msg |-> "", ok |-> value]

\* raise ValueError(msg)
Raise(bk, msg) == [book |-> bk, exc |-> "ValueError", msg |-> msg, ok |-> FALSE]

\* a decorator that does not catch ValueError
Caught_narrow == {"KeyError", "IndexError"}

\* the exception classes the decorator catches
Caught == {"KeyError", "IndexError", "ValueError"}

\* the input_error wrapper around a call with outcome out: a caught
\* exception is displayed and the wrapper returns False
input_error(out) ==
    IF out.exc \in Caught
    THEN [book |-> out.book, exc |-> "", msg |-> out.msg, ok |-> FALSE]
    ELSE out

\* str.split(): the words between runs of blanks
RECURSIVE split(_)
split(s) ==
    IF Len(s) = 0 THEN <<>>
    ELSE IF s[1] = " " THEN split(Tail(s))
    ELSE LET blanks == {i \in DOMAIN s : s[i] = " "}
             n == IF blanks = {} THEN Len(s) + 1
                  ELSE CHOOSE i \in blanks : \A j \in blanks : i <= j
         IN  <<SubSeq(s, 1, n - 1)>> \o split(SubSeq(s, n, Len(s)))

\* parse_input: strip, lower, split; the first word is the command
parse_input(user_input) ==
    LET parts == split(Lower(user_input)) IN
    [command |-> IF Len(parts) > 0 THEN parts[1] ELSE <<>>,
     args    |-> IF Len(parts) > 1 THEN Tail(parts) ELSE <<>>]

----------------------------------------------------------------------------
(* handlers.py: the contact operations (each is wrapped by input_error)    *)

\* add_contact without the find_phone test
add_contact_body_unchecked(name, phone_number, address_book) ==
    IF ~validate_name(name) THEN Raise(address_book, "Invalid name format")
    ELSE IF ~validate_phone_number(phone_number)
         THEN Raise(address_book, "Invalid phone number format")
    ELSE
        LET record == find(address_book, name) IN
        IF record = 0
        THEN Return(add_record(address_book,
                               Record_add_phone(Record(name), phone_number)), TRUE)
        ELSE Return([address_book EXCEPT ![record].record =
                         Record_add_phone(@, phone_number)], TRUE)

add_contact_body(name, phone_number, address_book) ==
    IF ~validate_name(name) THEN Raise(address_book, "Invalid name format")
    ELSE IF ~validate_phone_number(phone_number)
         THEN Raise(address_book, "Invalid phone number format")
    ELSE
        LET record == find(address_book, name) IN
        IF record = 0
        THEN Return(add_record(address_book,
                               Record_add_phone(Record(name), phone_number)), TRUE)
        ELSE IF find_phone(address_book[record].record, phone_number) # 0
             THEN Raise(address_book, "already has this phone number")
             ELSE Return([address_book EXCEPT ![record].record =
                              Record_add_phone(@, phone_number)], TRUE)

\* add_contact that stores the new record before it validates the phone
add_contact_eager(name, phone_number, address_book) ==
    input_error(
        IF ~validate_name(name) THEN Raise(address_book, "Invalid name format")
        ELSE
            LET stored == IF find(address_book, name) = 0
                          THEN add_record(address_book, Record(name))
                          ELSE address_book
            IN  IF ~validate_phone_number(phone_number)
                THEN Raise(stored, "Invalid phone number format")
                ELSE add_contact_body(name, phone_number, stored))

add_contact(name, phone_number, address_book) ==
    input_error(add_contact_body(name, phone_number, address_book))

\* change_contact that validates the new phone after it has stored it
change_contact_body_late(name, new_phone_number, address_book) ==
    LET record == find(address_book, name) IN
    IF record = 0 THEN Raise(address_book, "Contact not found.")
    ELSE
        LET stored == IF Len(address_book[record].record.phones) = 0
                      THEN [address_book EXCEPT ![record].record =
                               Record_add_phone(@, new_phone_number)]
                      ELSE [address_book EXCEPT ![record].record.phones[1] =
                               new_phone_number]
        IN  IF ~validate_phone_number(new_phone_number)
            THEN Raise(stored, "Invalid phone number format")
            ELSE Return(stored, TRUE)

change_contact_body(name, new_phone_number, address_book) ==
    IF ~validate_phone_number(new_phone_number)
    THEN Raise(address_book, "Invalid phone number format")
    ELSE
        LET record == find(address_book, name) IN
        IF record = 0 THEN Raise(address_book, "Contact not found.")
        ELSE IF Len(address_book[record].record.phones) = 0
             THEN Return([address_book EXCEPT ![record].record =
                              Record_add_phone(@, new_phone_number)], TRUE)
        ELSE
            LET current_phone == address_book[record].record.phones[1]
                update == edit_phone(address_book[record].record,
                                     current_phone, new_phone_number)
            IN  IF update.msg # "Phone number is set"
                THEN Raise(address_book, update.msg)
                ELSE Return([address_book EXCEPT ![record].record = update.record],
                            TRUE)

change_contact(name, new_phone_number, address_book) ==
    input_error(change_contact_body(name, new_phone_number, address_book))

add_birthday_body(name, birthday, address_book) ==
    IF ~validate_name(name) THEN Raise(address_book, "Invalid name format")
    ELSE IF ~validate_birthday(birthday)
         THEN Raise(address_book, "Invalid birthday format. Use DD.MM.YYYY.")
    ELSE
        LET record == find(address_book, name) IN
        IF record = 0 THEN Raise(address_book, "Contact not found.")
        ELSE
            LET added == Record_add_birthday(address_book[record].record, birthday)
            IN  IF added.msg # "Birthday is set"
                THEN Raise(address_book, added.msg)
                ELSE Return([address_book EXCEPT ![record].record = added.record],
                            TRUE)

add_birthday(name, birthday, address_book) ==
    input_error(add_birthday_body(name, birthday, address_book))

get_contact_birthday(name, address_book) ==
    input_error(
        IF ~validate_name(name) THEN Raise(address_book, "Invalid name format")
        ELSE LET record == find(address_book, name) IN
             IF record = 0 THEN Raise(address_book, "Contact not found.")
             ELSE IF address_book[record].record.birthday = NoDate
                  THEN Raise(address_book, "Birthday is not set.")
                  ELSE Return(address_book, TRUE))

\* the days argument that upcoming_birthdays defaults to
DEFAULT_DAYS == 7

\* get_upcoming_birthdays, given the list upcoming_birthdays() returned
get_upcoming_birthdays(upcoming, address_book) ==
    input_error(
        IF Len(upcoming) = 0
        THEN Raise(address_book, "No upcoming birthdays within the next 7 days.")
        ELSE Return(address_book, TRUE))

----------------------------------------------------------------------------
(* handlers.py: the command handlers (each is wrapped by input_error)      *)

Usage(address_book) == Raise(address_book, "Usage")

\* a handler that checks its argument count, calls op and returns None
Handler(args, expected_len, address_book, op) ==
    input_error(
        IF ~validate_args_count(args, expected_len) THEN Usage(address_book)
        ELSE op)

handle_hello(args, address_book) ==
    Handler(args, 0, address_book, Return(address_book, TRUE))

handle_add(args, address_book) ==
    Handler(args, 2, address_book, add_contact(args[1], args[2], address_book))

handle_change(args, address_book) ==
    Handler(args, 2, address_book, change_contact(args[1], args[2], address_book))

handle_add_birthday(args, address_book) ==
    Handler(args, 2, address_book, add_birthday(args[1], args[2], address_book))

handle_show_birthday(args, address_book) ==
    Handler(args, 1, address_book, get_contact_birthday(args[1], address_book))

handle_birthdays(args, upcoming, address_book) ==
    Handler(args, 0, address_book, get_upcoming_birthdays(upcoming, address_book))

handle_phone(args, address_book) ==
    Handler(args, 1, address_book,
            IF find(address_book, args[1]) = 0
            THEN Raise(address_book, "Contact not found.")
            ELSE Return(address_book, TRUE))

handle_all(args, address_book) ==
    Handler(args, 0, address_book,
            IF Len(address_book) = 0
            THEN Raise(address_book, "No contacts found.")
            ELSE Return(address_book, TRUE))

handle_menu(args, address_book) ==
    Handler(args, 0, address_book, Return(address_book, TRUE))

\* handle_exit: with no arguments it raises SystemExit
handle_exit(args, address_book) ==
    Handler(args, 0, address_book,
            [book |-> address_book, exc |-> "SystemExit",
             msg |-> "Goodbye! Have a great day!", ok |-> FALSE])

----------------------------------------------------------------------------
(* The words typed at the prompt                                           *)

W_hello == <<"h", "e", "l", "l", "o">>
W_add == <<"a", "d", "d">>
W_change == <<"c", "h", "a", "n", "g", "e">>
W_add_birthday == <<"a", "d", "d", "-", "b", "i", "r", "t", "h", "d", "a", "y">>
W_show_birthday == <<"s", "h", "o", "w", "-", "b", "i", "r", "t", "h", "d", "a", "y">>
W_birthdays == <<"b", "i", "r", "t", "h", "d", "a", "y", "s">>
W_phone == <<"p", "h", "o", "n", "e">>
W_all == <<"a", "l", "l">>
W_menu == <<"m", "e", "n", "u">>
W_exit == <<"e", "x", "i", "t">>
W_close == <<"c", "l", "o", "s", "e">>
W_bye == <<"b", "y", "e">>
W_q == <<"q">>
W_foo == <<"f", "o", "o">>
W_EXIT == <<"E", "X", "I", "T">>

\* names: valid ones (one typed with a capital) and one with a digit
N_Ann == <<"A", "n", "n">>
N_ann == <<"a", "n", "n">>
N_bob == <<"b", "o", "b">>
N_cy == <<"c", "y">>
N_a1 == <<"a", "1">>

\* phones: two valid ones and one a digit short
P_plus == <<"+", "1", "2", "3", "4", "5", "6", "7">>
P_zero == <<"0", "1", "2", "3", "4", "5", "6">>
P_short == <<"+", "1", "2", "3", "4", "5", "6">>

\* birthdays: valid ones and a date that does not exist
B_leap == <<"2", "9", ".", "0", "2", ".", "2", "0", "0", "0">>
B_feb25 == <<"2", "5", ".", "2", ".", "1", "9", "9", "0">>
B_mar1 == <<"0", "1", ".", "0", "3", ".", "1", "9", "8", "5">>
B_apr31 == <<"3", "1", ".", "0", "4", ".", "2", "0", "0", "0">>

\* the names typed after add, and after the other commands
AddNameWords == {N_Ann, N_a1}
NameWords == {N_Ann, N_bob, N_a1}
PhoneWords == {P_plus, P_zero, P_short}
BirthdayWords == {B_leap, B_feb25, B_apr31}

\* the words of a line joined by single blanks
RECURSIVE Join(_)
Join(ws) ==
    IF Len(ws) = 0 THEN <<>>
    ELSE IF Len(ws) = 1 THEN ws[1]
    ELSE ws[1] \o <<" ">> \o Join(Tail(ws))

ExitWords == {W_exit, W_close, W_bye, W_q, W_EXIT}

\* the lines typed at the prompt
Lines ==
    {<<>>, <<" ">>, <<" ">> \o W_all \o <<" ", " ">>}
    \cup {Join(<<c>>) : c \in {W_hello, W_add, W_change, W_add_birthday,
                               W_show_birthday, W_birthdays, W_phone, W_all,
                               W_menu, W_foo} \cup ExitWords}
    \cup {Join(<<c, N_ann>>) : c \in {W_hello, W_add, W_birthdays, W_all,
                                      W_menu, W_foo} \cup ExitWords}
    \cup {Join(<<c, n>>) : c \in {W_show_birthday, W_phone}, n \in NameWords}
    \cup {Join(<<W_add, n, p>>) : n \in AddNameWords, p \in PhoneWords}
    \cup {Join(<<W_change, n, p>>) : n \in NameWords, p \in PhoneWords}
    \cup {Join(<<W_add_birthday, n, b>>) : n \in NameWords, b \in BirthdayWords}
    \cup {Join(<<c, N_ann, P_plus, P_zero>>) : c \in {W_add, W_change,
                                                      W_add_birthday}}

----------------------------------------------------------------------------
(* main.py: the interactive loop                                           *)

EXIT_COMMANDS == {W_exit, W_close, W_bye, W_q}

\* the keys of COMMAND_HANDLERS with the handler each maps to
COMMAND_HANDLERS ==
    {<<W_hello, "handle_hello">>, <<W_add, "handle_add">>,
     <<W_change, "handle_change">>, <<W_add_birthday, "handle_add_birthday">>,
     <<W_show_birthday, "handle_show_birthday">>,
     <<W_birthdays, "handle_birthdays">>, <<W_phone, "handle_phone">>,
     <<W_all, "handle_all">>, <<W_menu, "handle_menu">>}

\* _handle_command: which branch a command takes
Dispatch(command) ==
    IF Len(command) = 0 THEN "return"
    ELSE IF command \in EXIT_COMMANDS THEN "handle_exit"
    ELSE IF \E h \in COMMAND_HANDLERS : h[1] = command
         THEN (CHOOSE h \in COMMAND_HANDLERS : h[1] = command)[2]
         ELSE "unknown"

\* bounds of the model
MaxPhones == 2
MaxTicks == 2

\* the date the session starts on
StartDate == Date(2024, 2, 21)

Fits(bk) == \A i \in DOMAIN bk : Len(bk[i].record.phones) <= MaxPhones

NoCall ==
    [op |-> "", args |-> <<>>, ok |-> TRUE, msg |-> "", line |-> FALSE,
     ret |-> <<>>, now |-> NoDate, reads |-> <<>>, days |-> 0]

DtbIdle == [pc |-> "idle", birthday |-> NoDate, today |-> NoDate, ret |-> 0]

VpnIdle == [pc |-> "idle", s |-> <<>>, ret |-> FALSE]

Init ==
    /\ book = <<>>
    /\ today = StartDate
    /\ ticks = 0
    /\ session = "prompt"
    /\ last = NoCall
    /\ dtb = DtbIdle
    /\ vpn = VpnIdle

\* one turn of main()'s while loop on a line that _handle_command sends to
\* handler op with outcome out: an exception that input_error lets through
\* leaves main()
Turn(op, args, out) ==
    /\ book' = out.book
    /\ session' = IF out.exc = "" THEN "prompt" ELSE "exited"
    /\ last' = [NoCall EXCEPT !.op = op, !.args = args, !.ok = out.ok,
                              !.msg = out.msg, !.line = TRUE]
    /\ UNCHANGED <<today, ticks, dtb, vpn>>

\* the branches of _handle_command
Branches ==
    {"return", "unknown", "handle_exit"} \cup {h[2] : h \in COMMAND_HANDLERS}

\* parse_input applied to every line, and for each branch of _handle_command
\* the argument lists of the lines it sends there
ParsedLines == {parse_input(user_input) : user_input \in Lines}

ArgsOf ==
    [op \in Branches |->
        {parsed.args : parsed \in {q \in ParsedLines : Dispatch(q.command) = op}}]

\* One action per branch of _handle_command: a turn of the loop on a line
\* that parse_input and _handle_command send to that branch.

\* an empty line: _handle_command returns at once
CmdEmpty ==
    /\ session = "prompt"
    /\ \E args \in ArgsOf["return"] :
          LET out == Return(book, TRUE) IN
          /\ Fits(out.book)
          /\ Turn("return", args, out)

\* a command that is neither an exit command nor a key of COMMAND_HANDLERS
CmdUnknown ==
    /\ session = "prompt"
    /\ \E args \in ArgsOf["unknown"] :
          LET out == [book |-> book, exc |-> "", msg |-> "Unknown command.", ok |-> FALSE] IN
          /\ Fits(out.book)
          /\ Turn("unknown", args, out)

CmdHello ==
    /\ session = "prompt"
    /\ \E args \in ArgsOf["handle_hello"] :
          LET out == handle_hello(args, book) IN
          /\ Fits(out.book)
          /\ Turn("handle_hello", args, out)

CmdAdd ==
    /\ session = "prompt"
    /\ \E args \in ArgsOf["handle_add"] :
          LET out == handle_add(args, book) IN
          /\ Fits(out.book)
          /\ Turn("handle_add", args, out)

CmdChange ==
    /\ session = "prompt"
    /\ \E args \in ArgsOf["handle_change"] :
          LET out == handle_change(args, book) IN
          /\ Fits(out.book)
          /\ Turn("handle_change", args, out)

CmdAddBirthday ==
    /\ session = "prompt"
    /\ \E args \in ArgsOf["handle_add_birthday"] :
          LET out == handle_add_birthday(args, book) IN
          /\ Fits(out.book)
          /\ Turn("handle_add_birthday", args, out)

CmdShowBirthday ==
    /\ session = "prompt"
    /\ \E args \in ArgsOf["handle_show_birthday"] :
          LET out == handle_show_birthday(args, book) IN
          /\ Fits(out.book)
          /\ Turn("handle_show_birthday", args, out)

CmdPhone ==
    /\ session = "prompt"
    /\ \E args \in ArgsOf["handle_phone"] :
          LET out == handle_phone(args, book) IN
          /\ Fits(out.book)
          /\ Turn("handle_phone", args, out)

CmdAll ==
    /\ session = "prompt"
    /\ \E args \in ArgsOf["handle_all"] :
          LET out == handle_all(args, book) IN
          /\ Fits(out.book)
          /\ Turn("handle_all", args, out)

CmdMenu ==
    /\ session = "prompt"
    /\ \E args \in ArgsOf["handle_menu"] :
          LET out == handle_menu(args, book) IN
          /\ Fits(out.book)
          /\ Turn("handle_menu", args, out)

CmdExit ==
    /\ session = "prompt"
    /\ \E args \in ArgsOf["handle_exit"] :
          LET out == handle_exit(args, book) IN
          /\ Fits(out.book)
          /\ Turn("handle_exit", args, out)

\* the dates read during one call of upcoming_birthdays: the system date may
\* move on by a day before the adv-th record's days_to_birthday reads it
Reads(bk, now, adv) ==
    [i \in DOMAIN bk |-> IF i >= adv THEN NextDay(now) ELSE now]

\* a call of upcoming_birthdays(days), made by handle_birthdays through
\* get_upcoming_birthdays or (op = "upcoming_birthdays") on the object itself
Query(op, args, days) ==
    \E adv \in 1..(Len(book) + 1) :
        LET moved == adv <= Len(book)
            reads == Reads(book, today, adv)
            upcoming == upcoming_birthdays(book, days, today, reads)
            out == IF op = "handle_birthdays"
                   THEN handle_birthdays(args, upcoming, book)
                   ELSE Return(book, TRUE)
        IN  /\ moved => ticks < MaxTicks
            /\ today' = IF moved THEN NextDay(today) ELSE today
            /\ ticks' = IF moved THEN ticks + 1 ELSE ticks
            /\ book' = out.book
            /\ session' = IF Hangs(book, reads) THEN "hung"
                          ELSE IF out.exc = "" THEN "prompt" ELSE "exited"
            /\ last' = [op |-> op, args |-> args, ok |-> out.ok, msg |-> out.msg,
                        line |-> op = "handle_birthdays", ret |-> upcoming,
                        now |-> today, reads |-> reads, days |-> days]
            /\ UNCHANGED <<dtb, vpn>>

\* the birthdays command
CmdBirthdays ==
    /\ session = "prompt"
    /\ \E args \in ArgsOf["handle_birthdays"] :
          IF validate_args_count(args, 0)
          THEN Query("handle_birthdays", args, DEFAULT_DAYS)
          ELSE Turn("handle_birthdays", args, handle_birthdays(args, <<>>, book))

\* KeyboardInterrupt at either input(): main() calls handle_exit([])
Interrupt ==
    /\ session = "prompt"
    /\ LET out == handle_exit(<<>>, book) IN
       /\ book' = out.book
       /\ session' = IF out.exc = "" THEN "prompt" ELSE "exited"
       /\ last' = [NoCall EXCEPT !.op = "KeyboardInterrupt", !.ok = out.ok,
                                 !.msg = out.msg]
    /\ UNCHANGED <<today, ticks, dtb, vpn>>

\* input() raises EOFError at the end of the input: nothing in main() catches it
EndOfInput ==
    /\ session = "prompt"
    /\ session' = "exited"
    /\ last' = [NoCall EXCEPT !.op = "EOFError", !.ok = FALSE]
    /\ UNCHANGED <<book, today, ticks, dtb, vpn>>

\* the system date moves on to the next day
Tick ==
    /\ session = "prompt"
    /\ ticks < MaxTicks
    /\ today' = NextDay(today)
    /\ ticks' = ticks + 1
    /\ last' = [NoCall EXCEPT !.op = "tick"]
    /\ UNCHANGED <<book, session, dtb, vpn>>

\* AddressBook.delete called on the address book of the session
DeleteArgs == {N_ann, N_bob, N_cy}

Delete ==
    /\ session = "prompt"
    /\ \E name \in DeleteArgs :
          LET out == delete(book, name) IN
          /\ book' = out.book
          /\ last' = [NoCall EXCEPT !.op = "delete", !.args = <<name>>,
                                    !.ok = (out.msg = "Record deleted"),
                                    !.msg = out.msg]
    /\ UNCHANGED <<today, ticks, session, dtb, vpn>>

Next ==
    \/ CmdEmpty
    \/ CmdUnknown
    \/ CmdHello
    \/ CmdAdd
    \/ CmdChange
    \/ CmdAddBirthday
    \/ CmdShowBirthday
    \/ CmdBirthdays
    \/ CmdPhone
    \/ CmdAll
    \/ CmdMenu
    \/ CmdExit
    \/ Interrupt
    \/ EndOfInput
    \/ Tick
    \/ Delete

Spec == Init /\ [][Next]_vars

----------------------------------------------------------------------------
(* The contact operations and the AddressBook methods called directly, on  *)
(* address books of several records                                        *)

BookNames == {N_ann, N_bob, N_cy}
BookPhones == {P_plus}
BookBirthdays == {B_leap, B_mar1}

\* the days arguments upcoming_birthdays is called with
DaysArgs == {DEFAULT_DAYS - 1, DEFAULT_DAYS}

\* a direct call of a contact operation with outcome out
Call(op, args, out) ==
    /\ Fits(out.book)
    /\ book' = out.book
    /\ last' = [NoCall EXCEPT !.op = op, !.args = args, !.ok = out.ok,
                              !.msg = out.msg]
    /\ UNCHANGED <<today, ticks, session, dtb, vpn>>

AddContact ==
    /\ session = "prompt"
    /\ \E name \in BookNames, phone_number \in BookPhones :
          Call("add_contact", <<name, phone_number>>,
               add_contact(name, phone_number, book))

AddBirthday ==
    /\ session = "prompt"
    /\ \E name \in BookNames, birthday \in BookBirthdays :
          Call("add_birthday", <<name, birthday>>,
               add_birthday(name, birthday, book))

UpcomingBirthdays ==
    /\ session = "prompt"
    /\ \E days \in DaysArgs :
          Query("upcoming_birthdays", <<>>, days)

NextBook ==
    \/ AddContact
    \/ AddBirthday
    \/ Delete
    \/ UpcomingBirthdays
    \/ Tick

SpecBook == Init /\ [][NextBook]_vars

----------------------------------------------------------------------------
(* The contact operations and Record.remove_phone called directly, on      *)
(* records that can lose all their phones                                  *)

RecordNames == {N_ann, N_bob}
RecordPhones == {P_plus, P_zero}

\* the arguments change_contact is called with
ChangeNames == {N_ann, N_bob, N_cy}
ChangePhones == {P_plus, P_zero, P_short}

RecAddContact ==
    /\ session = "prompt"
    /\ \E name \in RecordNames, phone_number \in RecordPhones :
          Call("add_contact", <<name, phone_number>>,
               add_contact(name, phone_number, book))

RecChangeContact ==
    /\ session = "prompt"
    /\ \E name \in ChangeNames, new_phone_number \in ChangePhones :
          Call("change_contact", <<name, new_phone_number>>,
               change_contact(name, new_phone_number, book))

RecAddBirthday ==
    /\ session = "prompt"
    /\ \E name \in RecordNames :
          Call("add_birthday", <<name, B_leap>>, add_birthday(name, B_leap, book))

\* Record.remove_phone called on a record of the address book
RecRemovePhone ==
    /\ session = "prompt"
    /\ \E i \in DOMAIN book, phone_number \in RecordPhones :
          LET removed == remove_phone(book[i].record, phone_number) IN
          /\ book' = [book EXCEPT ![i].record = removed.record]
          /\ last' = [NoCall EXCEPT !.op = "remove_phone",
                                    !.args = <<book[i].key, phone_number>>,
                                    !.ok = (removed.msg = "Phone number is deleted"),
                                    !.msg = removed.msg]
    /\ UNCHANGED <<today, ticks, session, dtb, vpn>>

NextRecord ==
    \/ RecAddContact
    \/ RecChangeContact
    \/ RecAddBirthday
    \/ RecRemovePhone

SpecRecord == Init /\ [][NextRecord]_vars

----------------------------------------------------------------------------
(* Record.days_to_birthday called on its own, over a range of birthdays    *)
(* and system dates                                                        *)

DtbYears == {2023, 2024, 2097, 9999}
DtbDays == {1, 2, 15, 25, 26, 27, 28, 29, 30, 31}

DtbDates(years) ==
    {dt \in {Date(y, m, d) : y \in years, m \in 1..12, d \in DtbDays} :
        IsDate(dt.year, dt.month, dt.day)}

DtbBirthdays == DtbDates({2000})

DtbTodays == DtbDates(DtbYears)

InitDays ==
    /\ book = <<>>
    /\ today = StartDate
    /\ ticks = 0
    /\ session = "prompt"
    /\ last = NoCall
    /\ dtb \in {[pc |-> "call", birthday |-> b, today |-> t, ret |-> 0] :
                  b \in DtbBirthdays, t \in DtbTodays}
    /\ vpn = VpnIdle

\* the call returns days_left
DtbReturn ==
    /\ dtb.pc = "call"
    /\ days_to_birthday(dtb.birthday, dtb.today) # NoReturn
    /\ dtb' = [dtb EXCEPT !.pc = "done",
                          !.ret = days_to_birthday(dtb.birthday, dtb.today)]
    /\ UNCHANGED <<book, today, ticks, session, last, vpn>>

\* the loop runs past MAXYEAR and never ends
DtbHang ==
    /\ dtb.pc = "call"
    /\ days_to_birthday(dtb.birthday, dtb.today) = NoReturn
    /\ dtb' = [dtb EXCEPT !.pc = "hang"]
    /\ UNCHANGED <<book, today, ticks, session, last, vpn>>

NextDays ==
    \/ DtbReturn
    \/ DtbHang

SpecDays == InitDays /\ [][NextDays]_vars

----------------------------------------------------------------------------
(* validate_phone_number called on its own, over strings of every length   *)
(* around the limits of the pattern                                        *)

\* the longest run of digits tried
MaxDigits == 16

\* n times the digit 5
Fives(n) == [i \in 1..n |-> "5"]

\* a first character, then n digits: as they are, with the last one replaced
\* by a letter or by a digit outside ASCII, or followed by a newline
VpnStrings ==
    {<<>>, P_plus, P_zero, P_short, <<"0", "1", "2", "3", "4">>}
    \cup UNION {{<<c>> \o Fives(n),
                 <<c>> \o Fives(n) \o <<"\n">>,
                 <<c>> \o Fives(n) \o <<"a">>,
                 <<c>> \o Fives(n) \o <<ArabicIndicThree>>}
                : c \in {"+", "0", "1"}, n \in 0..MaxDigits}

InitPhone ==
    /\ book = <<>>
    /\ today = StartDate
    /\ ticks = 0
    /\ session = "prompt"
    /\ last = NoCall
    /\ dtb = DtbIdle
    /\ vpn \in {[pc |-> "call", s |-> str, ret |-> FALSE] : str \in VpnStrings}

\* the call returns bool(pattern.match(phone_number))
VpnReturn ==
    /\ vpn.pc = "call"
    /\ vpn' = [vpn EXCEPT !.pc = "done", !.ret = validate_phone_number(vpn.s)]
    /\ UNCHANGED <<book, today, ticks, session, last, dtb>>

NextPhone == VpnReturn

SpecPhone == InitPhone /\ [][NextPhone]_vars

----------------------------------------------------------------------------
(* Properties                                                              *)

TypeOK ==
    /\ session \in {"prompt", "exited", "hung"}
    /\ ticks \in 0..MaxTicks

\* record name of address book bk holds phone p
Holds(bk, name, p) ==
    \E i \in DOMAIN bk : bk[i].key = name /\ p \in Range(bk[i].record.phones)

\* C1: after any sequence of add, change and add-birthday operations no
\* record holds two phone numbers that are equal as strings.
C1_NoDuplicatePhones ==
    \A i \in DOMAIN book :
        \A j, k \in DOMAIN book[i].record.phones :
            j # k => book[i].record.phones[j] # book[i].record.phones[k]

\* C2: once a record's birthday is set, no step changes it while the record
\* stays in the address book; Record.add_birthday on it returns "Birthday
\* already set" and leaves the record as it is, and an add-birthday command
\* on it with a well-formed date fails with "Birthday already set".
C2_BirthdayIsFinal ==
    [][\A i \in DOMAIN book :
          book[i].record.birthday # NoDate =>
            /\ \A j \in DOMAIN book' :
                  book'[j].key = book[i].key =>
                      book'[j].record.birthday = book[i].record.birthday
            /\ \A b \in BirthdayWords :
                  Record_add_birthday(book[i].record, b) =
                      [record |-> book[i].record, msg |-> "Birthday already set"]
            /\ ( /\ last'.op = "handle_add_birthday"
                 /\ Len(last'.args) = 2
                 /\ last'.args[1] = book[i].key
                 /\ validate_birthday(last'.args[2]) )
               => (~last'.ok /\ last'.msg = "Birthday already set")]_vars

\* a second add-birthday with another date was refused and the first date kept
C2_Witness ==
    /\ last.op = "handle_add_birthday"
    /\ last.msg = "Birthday already set"
    /\ last.args = <<N_ann, B_feb25>>
    /\ Len(book) = 1
    /\ book[1].record.birthday = Date(2000, 2, 29)

\* year y is one in which the birthday exists and is not before date t
Occurs(birthday, t, y) ==
    /\ IsDate(y, birthday.month, birthday.day)
    /\ DateGE(Date(y, birthday.month, birthday.day), t)

\* C3: when days_to_birthday returns, it returns the number of days from
\* today to the birthday in the smallest year >= today.year in which that
\* date exists and is not before today; the result is never negative and a
\* 29 February birthday is only ever mapped to a leap year.
C3_NextOccurrence ==
    dtb.pc = "done" =>
        /\ dtb.ret >= 0
        /\ \E y \in dtb.today.year..(dtb.today.year + 8) :
              /\ Occurs(dtb.birthday, dtb.today, y)
              /\ \A z \in dtb.today.year..(y - 1) : ~Occurs(dtb.birthday, dtb.today, z)
              /\ dtb.ret = toordinal(Date(y, dtb.birthday.month, dtb.birthday.day))
                           - toordinal(dtb.today)
              /\ (dtb.birthday.month = 2 /\ dtb.birthday.day = 29) => IsLeap(y)

\* born 29.02.2000, today 01.03.2023: 365 days to 29.02.2024
C3_Witness ==
    /\ dtb.pc = "done"
    /\ dtb.birthday = Date(2000, 2, 29)
    /\ dtb.today = Date(2023, 3, 1)
    /\ dtb.ret = 365

\* the offset of a record's next birthday from date t
Offset(birthday, t) ==
    LET y == CHOOSE y \in t.year..(t.year + 8) :
                 /\ Occurs(birthday, t, y)
                 /\ \A z \in t.year..(y - 1) : ~Occurs(birthday, t, z)
    IN  toordinal(Date(y, birthday.month, birthday.day)) - toordinal(t)

\* the records upcoming_birthdays(days) has to report: those with a birthday
\* whose offset, from the date read for that record, is in 0..days
Due(bk, reads, days) ==
    {i \in DOMAIN bk :
        /\ bk[i].record.birthday # NoDate
        /\ Offset(bk[i].record.birthday, reads[i]) \in 0..days}

\* C4: upcoming_birthdays(days) returns exactly one entry for each record
\* that has a birthday with an offset in 0..days, and no other entry.
C4_ExactlyTheDue ==
    last.op = "upcoming_birthdays" =>
        LET due == Due(book, last.reads, last.days) IN
        /\ Len(last.ret) = Cardinality(due)
        /\ \A i \in due :
              Cardinality({k \in DOMAIN last.ret :
                              last.ret[k].name = book[i].record.name}) = 1
        /\ \A k \in DOMAIN last.ret :
              \E i \in due : last.ret[k].name = book[i].record.name

\* one call with a record at offset days (reported), one at offset days + 1
\* (left out) and one without a birthday (left out)
C4_Witness ==
    /\ last.op = "upcoming_birthdays"
    /\ Len(book) = 3
    /\ \A i \in DOMAIN book : last.reads[i] = last.now
    /\ \E i, j, k \in DOMAIN book :
          /\ book[i].record.birthday # NoDate
          /\ Offset(book[i].record.birthday, last.now) = last.days
          /\ \E n \in DOMAIN last.ret : last.ret[n].name = book[i].record.name
          /\ book[j].record.birthday # NoDate
          /\ Offset(book[j].record.birthday, last.now) = last.days + 1
          /\ \A n \in DOMAIN last.ret : last.ret[n].name # book[j].record.name
          /\ book[k].record.birthday = NoDate
          /\ \A n \in DOMAIN last.ret : last.ret[n].name # book[k].record.name

\* C5: the list upcoming_birthdays returns is ascending by reported date, and
\* entries with the same date are in the address book's insertion order.
C5_SortedStable ==
    last.op = "upcoming_birthdays" =>
        \A a, b \in DOMAIN last.ret :
            a < b =>
                /\ DateGE(last.ret[b].date, last.ret[a].date)
                /\ last.ret[a].date = last.ret[b].date
                   => Pos(book, last.ret[a].name) < Pos(book, last.ret[b].name)

\* three entries: the record inserted first is reported last, and the two
\* with the same date keep their insertion order
C5_Witness ==
    /\ last.op = "upcoming_birthdays"
    /\ Len(last.ret) = 3
    /\ last.ret[3].name = book[1].record.name
    /\ last.ret[1].date = last.ret[2].date
    /\ last.ret[2].date # last.ret[3].date

\* C6: an add of a phone the named record already holds is refused with
\* "already has this phone number" and leaves the record's phones as they were.
C6_DuplicateRefused ==
    [][( /\ last'.op = "handle_add"
         /\ Len(last'.args) = 2
         /\ Holds(book, last'.args[1], last'.args[2]) )
       => /\ ~last'.ok
          /\ last'.msg = "already has this phone number"
          /\ book' = book]_vars

\* the second add of the same phone was refused
C6_Witness ==
    /\ last.op = "handle_add"
    /\ last.msg = "already has this phone number"
    /\ last.args = <<N_ann, P_plus>>
    /\ Len(book) = 1
    /\ book[1].record.phones = <<P_plus>>

Without(bk, name) == SelectSeq(bk, LAMBDA item : item.key # name)

\* C8: delete of an absent name returns "Record not found" and leaves the
\* address book as it was; delete of a present name removes that record only
\* and keeps the others and their order.
C8_Delete ==
    [][last'.op = "delete" =>
          IF last'.args[1] \in Keys(book)
          THEN last'.msg = "Record deleted" /\ book' = Without(book, last'.args[1])
          ELSE last'.msg = "Record not found" /\ book' = book]_vars

\* an absent name was deleted from an address book of two records
C8_Witness ==
    /\ last.op = "delete"
    /\ last.msg = "Record not found"
    /\ Len(book) = 2
    /\ last.args[1] \notin Keys(book)

\* C9: an add, change or add-birthday that ends in a failure leaves the
\* address book as it was.
C9_FailureKeepsBook ==
    [][( /\ last'.op \in {"handle_add", "handle_change", "handle_add_birthday"}
         /\ ~last'.ok )
       => book' = book]_vars

\* a change to a malformed phone failed on a record that exists
C9_Witness ==
    /\ last.op = "handle_change"
    /\ ~last.ok
    /\ last.args = <<N_ann, P_short>>
    /\ last.msg = "Invalid phone number format"
    /\ Len(book) = 1
    /\ book[1].key = N_ann

\* C10: a line ends the session if and only if its command is an exit
\* command with no arguments; after every other line the loop is back at the
\* prompt.
C10_OnlyExitEnds ==
    [][last'.line =>
          /\ session' \in {"prompt", "exited"}
          /\ session' = "exited"
             <=> (last'.op = "handle_exit" /\ last'.args = <<>>)]_vars

\* an exit command with an argument was refused and the loop went on
C10_Witness ==
    /\ last.line
    /\ last.op = "handle_exit"
    /\ last.args # <<>>
    /\ ~last.ok
    /\ session = "prompt"
    /\ Len(book) = 1

PlainShape(s) ==
    /\ Len(s) > 0
    /\ \A i \in 2..Len(s) : s[i] \in Range(DigitSeq)
    /\ \/ s[1] = "+" /\ Len(s) - 1 \in 7..15
       \/ s[1] = "0" /\ Len(s) - 1 \in 6..14

\* C12: validate_phone_number(s) is true if and only if s is '+' followed by
\* 7 to 15 digits and nothing else, or '0' followed by 6 to 14 digits and
\* nothing else.
C12_PhoneShape ==
    vpn.pc = "done" => (vpn.ret <=> PlainShape(vpn.s))

\* C13: days_to_birthday terminates for every stored birthday and every
\* system date of the years 1 to 9999: its loop always reaches a year whose
\* candidate exists and is not before today (and so upcoming_birthdays
\* terminates too).
C13_Terminates ==
    dtb.pc # "hang"

\* C14: every (name, date) pair upcoming_birthdays returns has the month and
\* the day of that contact's stored birthday, also when the system date
\* moves on by a day between the read at the top of the call and the reads
\* inside days_to_birthday.
C14_ReportedIsBirthday ==
    last.op = "upcoming_birthdays" =>
        \A k \in DOMAIN last.ret :
            \E i \in DOMAIN book :
                /\ book[i].record.name = last.ret[k].name
                /\ book[i].record.birthday.month = last.ret[k].date.month
                /\ book[i].record.birthday.day = last.ret[k].date.day

\* C15: in every state the command loop reaches, every record of the address
\* book holds at least one phone and is stored under the key equal to its own
\* name; so change_contact never finds a record without phones and no output
\* says "No phone numbers".
C15_PhonesAndKeys ==
    \A i \in DOMAIN book :
        /\ Len(book[i].record.phones) >= 1
        /\ book[i].key = book[i].record.name

\* a record that went through add, add and change holds two phones under its
\* own name
C15_Witness ==
    /\ last.op = "handle_change"
    /\ last.ok
    /\ Len(book) = 1
    /\ book[1].key = N_ann
    /\ book[1].record.name = N_ann
    /\ Len(book[1].record.phones) = 2

====
